---- MODULE Spec2Model ----
(***************************************************************************)
(* OnTheMinute (src/src/index.ts): a scheduler that runs the registered    *)
(* callbacks on every wall-clock minute boundary.                          *)
(*                                                                         *)
(* The platform is modelled as an ideal clock and an ideal timer facility: *)
(* the clock is a count of milliseconds, a timer fires exactly when the    *)
(* clock reaches its due time, and a dispatch takes no clock time.  The    *)
(* execution context is single-threaded: a timer handler runs to its end   *)
(* before another handler or an outside caller runs; the only code that    *)
(* runs inside a handler is the registered callbacks, which may call any   *)
(* public method of the scheduler.                                         *)
(***************************************************************************)
EXTENDS Integers, Sequences, FiniteSets, TLC

\* ----------------------------------------------------------------- bounds
MaxMinutes == 2
MaxCallbacks == 2
MaxStarts == 2

\* The callback identities (function objects) a caller may register.
Fns == {"f", "g"}
\* The same and one more, for the runs of the registry operations alone.
MoreFns == Fns \cup {"h"}

\* Clock readings at which the scheduler is constructed.
StartTimes == {0, 30500, 59999}
\* The amounts by which the clock may advance between timer firings.
ClockSteps == {29500}

\* ------------------------------------------------------ program constants
MsPerSecond == 1000
SecondsPerMinute == 60
IntervalMs == 60 * 1000
MaxTime == MaxMinutes * IntervalMs

Null == 0

VARIABLES
    env,                    \* the run's surroundings, fixed: [fns, at, steps, extra, watch]
    now,                    \* the wall clock, in ms
    timerId,                \* this.timerId: Null or a timer identity
    timers,                 \* the platform's live timers: id -> [kind, due]
    callbacks,              \* this.callbacks
    handles,                \* the callbacks an unregister handle exists for
    pc,                     \* "idle", "loop" (in executeCallbacks), "callback"
    handler,                \* the timer handler running: "none", "timeout", "interval"
    callbacksToExecute,     \* the copy executeCallbacks iterates
    idx,                    \* how many entries the for-of loop has taken
    callback,               \* the loop variable: the entry being called
    starts,                 \* how many times start() has been called
    millisecondsRemaining,  \* what millisecondsUntilNextMinute() returned last
    \* history variables, each kept by one monitor
    reading,                \* the clock reading a computation was given
    lastOp,                 \* the step taken last
    lastCtl,                \* the last start/stop/destroy: [op, at]
    tickTimes,              \* clock readings of the ticks begun since lastCtl
    tick,                   \* "none", "running", "ended"
    regAtBegin,             \* the registry when the current/last tick began
    invoked,                \* the callbacks invoked in the current/last tick
    thrown,                 \* positions in that tick whose callback threw
    added,                  \* registrations made by callbacks during a tick
    cut,                    \* handle invocations made by callbacks during a tick
    pending,                \* the registration the last step made, if any
    gone,                   \* registrations revoked at once by their handle
    cleared,                \* callbacks destroy() took out of the registry
    halt,                   \* the last stop(), and the start() and tick after it
    threw,                  \* the callbacks that threw, in this tick and the last
    quiet,                  \* no start/stop/destroy since the last tick began
    stops,                  \* the calls of stop() made in a row
    quit,                   \* the first stop()/destroy() a callback called in the tick
    frame                   \* what the last registerCallback / handle call found

progVars == <<env, now, timerId, timers, callbacks, handles, pc, handler,
              callbacksToExecute, idx, callback, starts, millisecondsRemaining>>
ctlVars == <<lastCtl, tickTimes>>
tickVars == <<tick, regAtBegin, invoked, thrown>>
goneVars == <<pending, gone>>
threwVars == <<threw, quiet>>
histVars == <<reading, lastOp, ctlVars, tickVars, added, cut, goneVars, cleared,
              halt, threwVars, stops, quit, frame>>
vars == <<progVars, histVars>>

\* ---------------------------------------------------------------- helpers
Range(s) == {s[i] : i \in 1..Len(s)}

Count(s, x) == Cardinality({i \in 1..Len(s) : s[i] = x})

\* Array.prototype.indexOf: the first position holding x, or 0 for "not found"
\* (positions are 1-based here, so 0 stands for JavaScript's -1).
IndexOf(s, x) ==
    IF x \in Range(s)
    THEN CHOOSE i \in 1..Len(s) : s[i] = x /\ \A j \in 1..(i - 1) : s[j] # x
    ELSE 0

\* Array.prototype.splice(index, 1): the array without the entry at position i.
Splice(s, i) == [j \in 1..(Len(s) - 1) |-> IF j < i THEN s[j] ELSE s[j + 1]]

\* Date.getSeconds() and Date.getMilliseconds() of the clock reading t.
GetSeconds(t) == (t \div MsPerSecond) % SecondsPerMinute
GetMilliseconds(t) == t % MsPerSecond

\* The minute boundaries: the clock readings with seconds = 0, milliseconds = 0.
IsBoundary(t) == t % IntervalMs = 0

MillisecondsUntilNextMinuteOff(t) ==
    LET secondsRemaining == (SecondsPerMinute - 1) - GetSeconds(t)
    IN  secondsRemaining * MsPerSecond - GetMilliseconds(t)

MillisecondsUntilNextMinute(t) ==
    LET secondsRemaining == SecondsPerMinute - GetSeconds(t)
    IN  secondsRemaining * MsPerSecond - GetMilliseconds(t)

\* ------------------------------------------------------- platform timers
LiveTimers == DOMAIN timers

\* clearTimeout / clearInterval: Node cancels a timer of either kind with
\* either call; a null, fired or already cancelled timer is left alone.
ClearTimer(ts, id) == [i \in (DOMAIN ts) \ {id} |-> ts[i]]

\* The identity of a timer created now: one that names no live timer.  (The
\* only reference the program keeps to a timer is this.timerId, and it is
\* overwritten with the new identity.)
NewTimer(ts) == CHOOSE id \in 1..(Cardinality(DOMAIN ts) + 1) : id \notin DOMAIN ts

SetTimeout(ts, id, delay) == (id :> [kind |-> "timeout", due |-> now + delay]) @@ ts

SetInterval(ts, id, period) == (id :> [kind |-> "interval", due |-> now + period]) @@ ts

\* A public method can be called by an outside caller between handlers, or by
\* a registered callback while it runs.
Callable == pc \in {"idle", "callback"}

\* ------------------------------------------------------------------- Init
\* The last step was neither registerCallback nor a handle.
NoFrame == [reg |-> <<>>, same |-> TRUE]

\* The last step was not stop().
NoStops == [n |-> 0, was |-> FALSE, same |-> TRUE]

\* No stop() is being followed.
NoHalt == [phase |-> "none", reg |-> <<>>, kept |-> TRUE]

\* The history variables before anything has been observed.
HistInit ==
    /\ reading = [minute |-> 0, s |-> 0, m |-> 0]
    /\ lastOp = <<"start">>
    /\ lastCtl = [op |-> "start", at |-> now]
    /\ tickTimes = <<>>
    /\ tick = "none"
    /\ regAtBegin = <<>>
    /\ invoked = <<>>
    /\ thrown = {}
    /\ added = {}
    /\ cut = {}
    /\ pending = <<>>
    /\ gone = {}
    /\ cleared = {}
    /\ halt = NoHalt
    /\ threw = {}
    /\ quiet = TRUE
    /\ stops = NoStops
    /\ quit = {}
    /\ frame = NoFrame

\* The state the constructor leaves: it calls start() on a fresh object.
\* e describes the surroundings: the callbacks callers register (fns), the
\* clock readings at construction (at), the amounts by which the clock may
\* advance short of a timer's due time (steps), the calls of start() allowed
\* beyond MaxStarts (extra), and the history kept (watch).
Constructed(e) ==
    /\ env = e
    /\ now \in e.at
    /\ millisecondsRemaining = Null
    /\ timers = SetTimeout(<<>>, 1, MillisecondsUntilNextMinute(now))
    /\ timerId = 1
    /\ starts = 1
    /\ callbacks = <<>>
    /\ handles = {}
    /\ pc = "idle"
    /\ handler = "none"
    /\ callbacksToExecute = <<>>
    /\ idx = 0
    /\ callback = Null
    /\ HistInit

\* ------------------------------------------------------- public methods
\* start(): cancel the timer this.timerId names, then arm a one-shot timeout
\* for the next minute boundary.
Start ==
    /\ Callable
    /\ starts < MaxStarts + env.extra
    /\ starts' = starts + 1
    /\ LET others == IF timerId # Null THEN ClearTimer(timers, timerId) ELSE timers
           ms == MillisecondsUntilNextMinute(now)
           id == NewTimer(others)
       IN  /\ timers' = SetTimeout(others, id, ms)
           /\ timerId' = id
    /\ UNCHANGED <<env, now, callbacks, handles, pc, handler, callbacksToExecute, idx,
                   callback, millisecondsRemaining>>

\* The effect of stop() on the timers and on this.timerId.
StopTimers ==
    /\ timers' = IF timerId # Null
                 THEN ClearTimer(ClearTimer(timers, timerId), timerId)
                 ELSE timers
    /\ timerId' = Null

\* stop() as its doc comment describes it: "Stops the timer and clears all
\* callbacks".
StopClearsCallbacks ==
    /\ Callable
    /\ StopTimers
    /\ callbacks' = <<>>
    /\ UNCHANGED <<env, now, handles, pc, handler, callbacksToExecute, idx,
                   callback, millisecondsRemaining, starts>>

\* stop()
Stop ==
    /\ Callable
    /\ StopTimers
    /\ UNCHANGED <<env, now, callbacks, handles, pc, handler,
                   callbacksToExecute, idx, callback, millisecondsRemaining, starts>>

\* destroy(): stop(), then this.callbacks = [].
Destroy ==
    /\ Callable
    /\ StopTimers
    /\ callbacks' = <<>>
    /\ UNCHANGED <<env, now, handles, pc, handler, callbacksToExecute, idx,
                   callback, millisecondsRemaining, starts>>

\* registerCallback(f): push f; the returned closure is the handle of f.
RegisterCallback(f) ==
    /\ Callable
    /\ Len(callbacks) < MaxCallbacks
    /\ callbacks' = Append(callbacks, f)
    /\ handles' = handles \cup {f}
    /\ UNCHANGED <<env, now, timerId, timers, pc, handler, callbacksToExecute,
                   idx, callback, millisecondsRemaining, starts>>

\* The handle with its test inverted: it never finds its callback.
UnregisteredNever(cbs, f) ==
    LET index == IndexOf(cbs, f)
    IN  IF index = 0 /\ cbs # <<>> THEN Splice(cbs, Len(cbs)) ELSE cbs

\* The handle splicing at the front instead of at the index found.
UnregisteredFirst(cbs, f) ==
    LET index == IndexOf(cbs, f)
    IN  IF index # 0 THEN Splice(cbs, 1) ELSE cbs

\* What the handle of f does to the registry: indexOf, then splice if found.
Unregistered(cbs, f) ==
    LET index == IndexOf(cbs, f)
    IN  IF index # 0 THEN Splice(cbs, index) ELSE cbs

\* An invocation of the unregister handle registerCallback(f) returned.
Unregister(f) ==
    /\ Callable
    /\ f \in handles
    /\ callbacks' = Unregistered(callbacks, f)
    /\ UNCHANGED <<env, now, timerId, timers, handles, pc, handler,
                   callbacksToExecute, idx, callback, millisecondsRemaining, starts>>

\* --------------------------------------------------------- the platform
\* The clock advances to t.  An ideal timer fires when its due time is
\* reached, so the clock does not pass the due time of a live timer.
AdvanceClock(t) ==
    /\ pc = "idle"
    /\ t > now
    /\ t <= MaxTime
    /\ \A i \in LiveTimers : timers[i].due >= t
    /\ now' = t
    /\ UNCHANGED <<env, timerId, timers, callbacks, handles, pc, handler,
                   callbacksToExecute, idx, callback, millisecondsRemaining, starts>>

\* Where the clock may go next: a step further, or the due time of a timer.
ClockTargets == {now + d : d \in env.steps} \cup {timers[i].due : i \in LiveTimers}

\* The loop iterating this.callbacks itself.
IterTargetLive(copy, live) == live

\* The array the for-of loop of executeCallbacks iterates: the copy.
IterTarget(copy, live) == copy

\* executeCallbacks() is entered: the registry is copied and the loop starts.
\* kind names the timer handler that made the call.
BeginDispatch(kind) ==
    /\ handler' = kind
    /\ callbacksToExecute' = callbacks
    /\ idx' = 0
    /\ pc' = "loop"

\* The one-shot timeout start() armed fires: its handler calls
\* executeCallbacks() and, when that returns, arms the interval (LoopEnd).
TimeoutFires(id) ==
    /\ pc = "idle"
    /\ id \in LiveTimers
    /\ timers[id].kind = "timeout"
    /\ timers[id].due <= now
    /\ timers' = ClearTimer(timers, id)
    /\ BeginDispatch("timeout")
    /\ UNCHANGED <<env, now, timerId, callbacks, handles, callback,
                   millisecondsRemaining, starts>>

\* The interval fires: its handler calls executeCallbacks(); the platform
\* keeps the interval live, due one period later.
IntervalFires(id) ==
    /\ pc = "idle"
    /\ id \in LiveTimers
    /\ timers[id].kind = "interval"
    /\ timers[id].due <= now
    /\ timers' = [timers EXCEPT ![id].due = now + IntervalMs]
    /\ BeginDispatch("interval")
    /\ UNCHANGED <<env, now, timerId, callbacks, handles, callback,
                   millisecondsRemaining, starts>>

\* The for-of loop takes its next entry and calls it.
InvokeNext ==
    /\ pc = "loop"
    /\ idx < Len(IterTarget(callbacksToExecute, callbacks))
    /\ idx' = idx + 1
    /\ callback' = IterTarget(callbacksToExecute, callbacks)[idx + 1]
    /\ pc' = "callback"
    /\ UNCHANGED <<env, now, timerId, timers, callbacks, handles, handler,
                   callbacksToExecute, millisecondsRemaining, starts>>

\* The running callback returns.
CallbackReturns ==
    /\ pc = "callback"
    /\ pc' = "loop"
    /\ UNCHANGED <<env, now, timerId, timers, callbacks, handles, handler,
                   callbacksToExecute, idx, callback, millisecondsRemaining, starts>>

\* The loop without its try/catch: the exception leaves executeCallbacks and
\* the timer handler, which are abandoned.
CallbackThrowsUncaught ==
    /\ pc = "callback"
    /\ pc' = "idle"
    /\ handler' = "none"
    /\ callbacksToExecute' = <<>>
    /\ idx' = 0
    /\ callback' = Null
    /\ UNCHANGED <<env, now, timerId, timers, callbacks, handles,
                   millisecondsRemaining, starts>>

\* The running callback throws: the catch clause reports the error and the
\* loop goes on.
CallbackThrows ==
    /\ pc = "callback"
    /\ pc' = "loop"
    /\ UNCHANGED <<env, now, timerId, timers, callbacks, handles, handler,
                   callbacksToExecute, idx, callback, millisecondsRemaining, starts>>

\* The loop is exhausted and executeCallbacks returns.  The handler of the
\* one-shot timeout then arms the 60 s interval and stores it in this.timerId;
\* the handler of the interval has nothing left to do.
LoopEnd ==
    /\ pc = "loop"
    /\ idx >= Len(IterTarget(callbacksToExecute, callbacks))
    /\ IF handler = "timeout"
       THEN LET id == NewTimer(timers)
            IN  /\ timers' = SetInterval(timers, id, IntervalMs)
                /\ timerId' = id
       ELSE UNCHANGED <<timers, timerId>>
    /\ pc' = "idle"
    /\ handler' = "none"
    /\ callbacksToExecute' = <<>>
    /\ idx' = 0
    /\ callback' = Null
    /\ UNCHANGED <<env, now, callbacks, handles, millisecondsRemaining, starts>>

\* ------------------------------------------------------------- monitors
\* Each monitor keeps its history variables when env.watch names it, given
\* the name op of the step taken; it constrains no program variable.

\* lastOp: the step taken last.
MonLast(op) == lastOp' = op

\* lastCtl, tickTimes: the last start/stop/destroy and the ticks since.
MonCtl(op) ==
    IF op[1] \in {"start", "stop", "destroy"}
    THEN /\ lastCtl' = [op |-> op[1], at |-> now]
         /\ tickTimes' = <<>>
    ELSE IF op[1] = "fire"
    THEN /\ tickTimes' = Append(tickTimes, now)
         /\ UNCHANGED lastCtl
    ELSE UNCHANGED ctlVars

\* tickTimes alone: the clock readings of all the ticks begun so far.
MonTicks(op) ==
    /\ tickTimes' = IF op[1] = "fire" THEN Append(tickTimes, now) ELSE tickTimes
    /\ UNCHANGED lastCtl

\* tick, regAtBegin, invoked, thrown: the log of the tick that is running
\* ("running") or that has just ended ("ended"); the step after the end of a
\* tick discards the log.  thrown is kept only when env.watch names it.
MonTick(op) ==
    IF op[1] = "fire"
    THEN /\ tick' = "running"
         /\ regAtBegin' = callbacks
         /\ invoked' = <<>>
         /\ thrown' = {}
    ELSE IF op[1] = "invoke"
    THEN /\ invoked' = Append(invoked, callback')
         /\ UNCHANGED <<tick, regAtBegin, thrown>>
    ELSE IF op[1] = "throw" /\ "thrown" \in env.watch
    THEN /\ thrown' = thrown \cup {idx}
         /\ UNCHANGED <<tick, regAtBegin, invoked>>
    ELSE IF op[1] = "end"
    THEN /\ tick' = "ended"
         /\ UNCHANGED <<regAtBegin, invoked, thrown>>
    ELSE IF tick = "ended"
    THEN /\ tick' = "none"
         /\ regAtBegin' = <<>>
         /\ invoked' = <<>>
         /\ thrown' = {}
    ELSE UNCHANGED tickVars

\* The records of a per-tick history one tick later: those of the tick before
\* the last are dropped.
Aged(rs) == {[r EXCEPT !.age = "next"] : r \in {q \in rs : q.age = "this"}}

\* added: the registrations callbacks made during the current tick ("this")
\* and the one before ("next").
MonAdded(op) ==
    IF op[1] = "fire"
    THEN added' = Aged(added)
    ELSE IF op[1] = "register" /\ pc = "callback"
    THEN added' = added \cup {[fn |-> op[2], age |-> "this"]}
    ELSE UNCHANGED added

\* cut: the handle invocations callbacks made, during the current tick and
\* the one before, for a callback still ahead in the tick's copy, and not
\* registered again since; last: the registry held the callback at most once.
MonCut(op) ==
    IF op[1] = "fire"
    THEN cut' = Aged(cut)
    ELSE IF op[1] = "register"
    THEN cut' = {r \in cut : r.fn # op[2]}
    ELSE IF /\ op[1] = "unregister"
            /\ pc = "callback"
            /\ \E j \in (idx + 1)..Len(callbacksToExecute) : callbacksToExecute[j] = op[2]
    THEN cut' = cut \cup {[fn |-> op[2], age |-> "this",
                           last |-> Count(callbacks, op[2]) <= 1]}
    ELSE UNCHANGED cut

\* pending: the callback the last step registered, and whether the registry
\* already held it; gone: the callbacks whose handle was invoked right after
\* they were registered, and that have not been registered again since;
\* fresh: the registry did not already hold the callback when it was
\* registered; ticked: a tick has begun since.
MonGone(op) ==
    /\ pending' = IF op[1] = "register" THEN <<op[2], op[3]>> ELSE <<>>
    /\ IF op[1] = "fire"
       THEN gone' = {[r EXCEPT !.ticked = TRUE] : r \in gone}
       ELSE IF op[1] = "register"
       THEN gone' = {r \in gone : r.fn # op[2]}
       ELSE IF op[1] = "unregister" /\ pending # <<>> /\ pending[1] = op[2]
       THEN gone' = gone \cup {[fn |-> op[2], fresh |-> ~pending[2], ticked |-> FALSE]}
       ELSE UNCHANGED gone

\* cleared: the callbacks destroy() took out of the registry, and that have
\* not been registered again since; ticked: a tick has begun since.
MonCleared(op) ==
    IF op[1] = "fire"
    THEN cleared' = {[r EXCEPT !.ticked = TRUE] : r \in cleared}
    ELSE IF op[1] = "register"
    THEN cleared' = {r \in cleared : r.fn # op[2]}
    ELSE IF op[1] = "destroy"
    THEN cleared' = cleared \cup {[fn |-> f, ticked |-> FALSE] : f \in Range(callbacks)}
    ELSE UNCHANGED cleared

\* halt: the last stop() and what followed it.  reg: the registry stop() was
\* called on, less what a handle has removed since; kept: stop() left the
\* registry as it was; phase: "stopped", then "restarted" once start() has
\* been called, "ticking" while the first tick after that runs and "done" when
\* it has ended; the step after that, and destroy(), end the record.
MonHalt(op) ==
    IF op[1] = "stop"
    THEN halt' = [phase |-> "stopped", reg |-> callbacks, kept |-> callbacks' = callbacks]
    ELSE IF op[1] = "destroy" \/ (halt.phase = "done" /\ op[1] # "stop")
    THEN halt' = NoHalt
    ELSE IF op[1] = "start" /\ halt.phase = "stopped"
    THEN halt' = [halt EXCEPT !.phase = "restarted"]
    ELSE IF op[1] = "fire" /\ halt.phase = "restarted"
    THEN halt' = [halt EXCEPT !.phase = "ticking"]
    ELSE IF op[1] = "end" /\ halt.phase = "ticking"
    THEN halt' = [halt EXCEPT !.phase = "done"]
    ELSE IF op[1] = "unregister" /\ halt.phase # "none"
    THEN halt' = [halt EXCEPT !.reg = Unregistered(halt.reg, op[2])]
    ELSE UNCHANGED halt

\* threw: the callbacks that threw during the current tick ("this") and the
\* one before ("next"); same: the throw left this.timerId, the timers and the
\* registry as they were.  quiet: no start(), stop() or destroy() has been
\* called since the last tick began.
MonThrew(op) ==
    IF op[1] = "fire"
    THEN /\ threw' = Aged(threw)
         /\ quiet' = TRUE
    ELSE IF op[1] = "throw"
    THEN /\ threw' = threw \cup {[fn |-> callback, age |-> "this",
                                  same |-> /\ timerId' = timerId
                                           /\ timers' = timers
                                           /\ callbacks' = callbacks]}
         /\ UNCHANGED quiet
    ELSE IF op[1] \in {"start", "stop", "destroy"}
    THEN /\ quiet' = FALSE
         /\ UNCHANGED threw
    ELSE UNCHANGED threwVars

\* stops: the calls of stop() made in a row, with no other step between;
\* n: how many (2 stands for two or more); was: this.timerId was null when the
\* last of them was made; same: the last of them changed nothing.
MonStops(op) ==
    IF op[1] = "stop"
    THEN stops' = [n |-> IF stops.n = 0 THEN 1 ELSE 2,
                   was |-> timerId = Null,
                   same |-> progVars' = progVars]
    ELSE stops' = NoStops

\* quit: the first call of stop() or destroy() a callback made during the
\* current tick; pos: the position in the tick's copy of the callback that
\* made the call.  The step after the end of the tick discards it.
MonQuit(op) ==
    IF op[1] = "fire" \/ tick = "ended"
    THEN quit' = {}
    ELSE IF op[1] \in {"stop", "destroy"} /\ pc = "callback" /\ quit = {}
    THEN quit' = {[op |-> op[1], pos |-> idx]}
    ELSE UNCHANGED quit

\* frame: the registry the last step found, when that step was a call of
\* registerCallback or of a handle; same: the call changed nothing but the
\* registry (and, for registerCallback, the handles there are).
MonFrame(op) ==
    IF op[1] \in {"register", "unregister"}
    THEN frame' = [reg |-> callbacks,
                   same |-> UNCHANGED <<now, timerId, timers, pc, handler,
                                        callbacksToExecute, idx, callback>>]
    ELSE frame' = NoFrame

Observe(op) ==
    /\ UNCHANGED reading
    /\ IF "last" \in env.watch THEN MonLast(op) ELSE UNCHANGED lastOp
    /\ IF "ctl" \in env.watch THEN MonCtl(op)
       ELSE IF "ticks" \in env.watch THEN MonTicks(op)
       ELSE UNCHANGED ctlVars
    /\ IF "tick" \in env.watch THEN MonTick(op) ELSE UNCHANGED tickVars
    /\ IF "added" \in env.watch THEN MonAdded(op) ELSE UNCHANGED added
    /\ IF "cut" \in env.watch THEN MonCut(op) ELSE UNCHANGED cut
    /\ IF "gone" \in env.watch THEN MonGone(op) ELSE UNCHANGED goneVars
    /\ IF "cleared" \in env.watch THEN MonCleared(op) ELSE UNCHANGED cleared
    /\ IF "halt" \in env.watch THEN MonHalt(op) ELSE UNCHANGED halt
    /\ IF "threw" \in env.watch THEN MonThrew(op) ELSE UNCHANGED threwVars
    /\ IF "stops" \in env.watch THEN MonStops(op) ELSE UNCHANGED stops
    /\ IF "quit" \in env.watch THEN MonQuit(op) ELSE UNCHANGED quit
    /\ IF "frame" \in env.watch THEN MonFrame(op) ELSE UNCHANGED frame

\* ------------------------------------------------------- specification
Next ==
    \/ Start /\ Observe(<<"start">>)
    \/ Stop /\ Observe(<<"stop">>)
    \/ Destroy /\ Observe(<<"destroy">>)
    \/ \E f \in env.fns : RegisterCallback(f) /\ Observe(<<"register", f, f \in Range(callbacks)>>)
    \/ \E f \in env.fns : Unregister(f) /\ Observe(<<"unregister", f>>)
    \/ \E t \in ClockTargets : AdvanceClock(t) /\ Observe(<<"clock">>)
    \/ \E id \in LiveTimers : TimeoutFires(id) /\ Observe(<<"fire", "timeout">>)
    \/ \E id \in LiveTimers : IntervalFires(id) /\ Observe(<<"fire", "interval">>)
    \/ InvokeNext /\ Observe(<<"invoke">>)
    \/ CallbackReturns /\ Observe(<<"return">>)
    \/ CallbackThrows /\ Observe(<<"throw">>)
    \/ LoopEnd /\ Observe(<<"end">>)

\* Every operation, no history.
Init == Constructed([fns |-> Fns, at |-> StartTimes, steps |-> {}, extra |-> 0, watch |-> {}])
Spec == Init /\ [][Next]_vars

\* The clock also advances between the due times; one callback.
InitTime == Constructed([fns |-> {"f"}, at |-> StartTimes, steps |-> ClockSteps, extra |-> 0,
                         watch |-> {"ctl"}])
SpecTime == InitTime /\ [][Next]_vars

\* The log of each tick.
InitTick == Constructed([fns |-> Fns, at |-> {30500}, steps |-> {}, extra |-> 0,
                         watch |-> {"tick", "thrown"}])
SpecTick == InitTick /\ [][Next]_vars

InitAdded == Constructed([fns |-> Fns, at |-> {30500}, steps |-> {}, extra |-> 0,
                          watch |-> {"tick", "added"}])
SpecAdded == InitAdded /\ [][Next]_vars

InitCut == Constructed([fns |-> Fns, at |-> {30500}, steps |-> {}, extra |-> 0,
                        watch |-> {"tick", "cut"}])
SpecCut == InitCut /\ [][Next]_vars

InitGone == Constructed([fns |-> Fns, at |-> {30500}, steps |-> {}, extra |-> 0, watch |-> {"gone"}])
SpecGone == InitGone /\ [][Next]_vars

InitCleared == Constructed([fns |-> Fns, at |-> {30500}, steps |-> {}, extra |-> 0,
                            watch |-> {"last", "cleared"}])
SpecCleared == InitCleared /\ [][Next]_vars

InitLast == Constructed([fns |-> Fns, at |-> {30500}, steps |-> {}, extra |-> 0, watch |-> {"last"}])
SpecLast == InitLast /\ [][Next]_vars

\* One callback, and one more call of start().
InitRestart == Constructed([fns |-> {"f"}, at |-> {30500}, steps |-> {}, extra |-> 1,
                            watch |-> {}])
SpecRestart == InitRestart /\ [][Next]_vars

\* The clock readings of all the ticks.
InitTicks == Constructed([fns |-> {"f"}, at |-> StartTimes, steps |-> {}, extra |-> 0,
                          watch |-> {"ticks"}])
SpecTicks == InitTicks /\ [][Next]_vars

InitHalt == Constructed([fns |-> Fns, at |-> {30500}, steps |-> {}, extra |-> 0,
                         watch |-> {"tick", "halt"}])
SpecHalt == InitHalt /\ [][Next]_vars

InitThrew == Constructed([fns |-> Fns, at |-> {30500}, steps |-> {}, extra |-> 0,
                          watch |-> {"tick", "threw"}])
SpecThrew == InitThrew /\ [][Next]_vars

InitStops == Constructed([fns |-> Fns, at |-> {30500}, steps |-> {}, extra |-> 0,
                          watch |-> {"stops"}])
SpecStops == InitStops /\ [][Next]_vars

InitQuit == Constructed([fns |-> Fns, at |-> {30500}, steps |-> {}, extra |-> 0,
                         watch |-> {"tick", "quit"}])
SpecQuit == InitQuit /\ [][Next]_vars

\* The steps the platform and the callbacks take by themselves: the clock
\* goes on, an armed timer fires when it is due, a called callback returns or
\* throws, the loop goes on to its end.
Platform ==
    \/ \E t \in ClockTargets : AdvanceClock(t) /\ Observe(<<"clock">>)
    \/ \E id \in LiveTimers : TimeoutFires(id) /\ Observe(<<"fire", "timeout">>)
    \/ \E id \in LiveTimers : IntervalFires(id) /\ Observe(<<"fire", "interval">>)
    \/ InvokeNext /\ Observe(<<"invoke">>)
    \/ CallbackReturns /\ Observe(<<"return">>)
    \/ CallbackThrows /\ Observe(<<"throw">>)
    \/ LoopEnd /\ Observe(<<"end">>)

\* The platform fires every armed timer and every callback ends; the callers
\* are free to call the public methods or not.
InitLive == Constructed([fns |-> {"f"}, at |-> {30500}, steps |-> {}, extra |-> 0,
                         watch |-> {}])
SpecLive == InitLive /\ [][Next]_vars /\ WF_vars(Platform)

\* registerCallback and the handles alone, called between ticks on every
\* registry of up to MaxCallbacks + 1 entries.
InitFrame ==
    /\ env = [fns |-> MoreFns, at |-> {30500}, steps |-> {}, extra |-> 0,
              watch |-> {"last", "frame"}]
    /\ now \in env.at
    /\ millisecondsRemaining = Null
    /\ timers = SetTimeout(<<>>, 1, MillisecondsUntilNextMinute(now))
    /\ timerId = 1
    /\ starts = 1
    /\ callbacks \in UNION {[1..n -> env.fns] : n \in 0..(MaxCallbacks + 1)}
    /\ handles = env.fns
    /\ pc = "idle"
    /\ handler = "none"
    /\ callbacksToExecute = <<>>
    /\ idx = 0
    /\ callback = Null
    /\ HistInit

NextFrame ==
    \/ \E f \in env.fns : RegisterCallback(f) /\ Observe(<<"register", f, f \in Range(callbacks)>>)
    \/ \E f \in env.fns : Unregister(f) /\ Observe(<<"unregister", f>>)

SpecFrame == InitFrame /\ [][NextFrame]_vars

\* millisecondsUntilNextMinute() alone: it is given every clock reading of
\* the first minutes and returns.
InitPure ==
    /\ reading \in [minute : 0..(MaxMinutes - 1), s : 0..(SecondsPerMinute - 1),
                    m : 0..(MsPerSecond - 1)]
    /\ now = reading.minute * IntervalMs + reading.s * MsPerSecond + reading.m
    /\ env = [fns |-> {}, at |-> {}, steps |-> {}, extra |-> 0, watch |-> {}]
    /\ millisecondsRemaining = Null
    /\ timers = <<>>
    /\ timerId = Null
    /\ starts = 0
    /\ callbacks = <<>>
    /\ handles = {}
    /\ pc = "idle"
    /\ handler = "none"
    /\ callbacksToExecute = <<>>
    /\ idx = 0
    /\ callback = Null
    /\ lastOp = <<"none">>
    /\ lastCtl = [op |-> "none", at |-> now]
    /\ tickTimes = <<>>
    /\ tick = "none"
    /\ regAtBegin = <<>>
    /\ invoked = <<>>
    /\ thrown = {}
    /\ added = {}
    /\ cut = {}
    /\ pending = <<>>
    /\ gone = {}
    /\ cleared = {}
    /\ halt = NoHalt
    /\ threw = {}
    /\ quiet = TRUE
    /\ stops = NoStops
    /\ quit = {}
    /\ frame = NoFrame

Compute ==
    /\ pc = "idle"
    /\ millisecondsRemaining' = MillisecondsUntilNextMinute(now)
    /\ pc' = "returned"
    /\ UNCHANGED <<env, now, timerId, timers, callbacks, handles, handler,
                   callbacksToExecute, idx, callback, starts>>
    /\ UNCHANGED histVars

SpecPure == InitPure /\ [][Compute]_vars

\* ================================================================ claims

\* C1: after construct() or start() at clock reading t, with no later
\* start/stop/destroy, the first tick occurs at t + millisecondsUntilNextMinute(t),
\* the first minute boundary strictly after t, every following tick occurs
\* exactly 60000 ms after the previous one, and no boundary after t is left
\* without its tick.
C1_TicksOnEveryBoundary ==
    lastCtl.op = "start" =>
        LET t == lastCtl.at
            first == t + MillisecondsUntilNextMinute(t)
        IN  /\ IsBoundary(first)
            /\ first > t
            /\ first - t <= 60000
            /\ \A k \in 1..Len(tickTimes) : tickTimes[k] = first + (k - 1) * 60000
            /\ now <= first + Len(tickTimes) * 60000

\* C2: in every reachable state the scheduler has at most one live platform
\* timer (armed timeouts plus active intervals).
C2_AtMostOneLiveTimer == Cardinality(LiveTimers) <= 1

\* C3: once stop() has been called (destroy() calls it), no tick begins until
\* start() is called again, and no live timer remains after the call.
C3_StopHaltsTicks ==
    lastCtl.op \in {"stop", "destroy"} =>
        /\ LiveTimers = {}
        /\ tickTimes = <<>>

\* C4: if a callback of the tick's copy throws, every callback that follows
\* it in the copy is still invoked in that tick, and the exception does not
\* leave the dispatch: the loop goes on to its end.
C4_ThrowDoesNotEndTick ==
    \A k \in thrown :
        /\ tick = "running" => pc \in {"loop", "callback"}
        /\ tick = "ended" =>
               \A j \in (k + 1)..Len(regAtBegin) :
                   j <= Len(invoked) /\ invoked[j] = regAtBegin[j]

\* A tick has ended in which a callback threw and another followed it.
C4_Witness ==
    tick = "ended" /\ \E k \in thrown : k < Len(regAtBegin)

\* C5 as stated: a callback g registered by a callback during tick N is not
\* invoked during tick N, and is invoked during tick N+1 if the registry holds
\* it when tick N+1 begins.
C5_RegisteredDuringTick ==
    \A r \in added :
        /\ (r.age = "this" /\ tick = "ended") => r.fn \notin Range(invoked)
        /\ (r.age = "next" /\ tick = "ended" /\ r.fn \in Range(regAtBegin))
               => r.fn \in Range(invoked)

\* C5 amended: a callback g registered by a callback during tick N, and not
\* in the registry when tick N began, is not invoked during tick N; a callback
\* registered during tick N is invoked during tick N+1 if the registry holds
\* it when tick N+1 begins.
C5_NewlyRegisteredDuringTick ==
    \A r \in added :
        /\ (r.age = "this" /\ tick \in {"running", "ended"}
                /\ r.fn \notin Range(regAtBegin))
               => r.fn \notin Range(invoked)
        /\ (r.age = "next" /\ tick = "ended" /\ r.fn \in Range(regAtBegin))
               => r.fn \in Range(invoked)

\* Tick N+1 has ended and invoked a callback registered during tick N.
C5_Witness ==
    \E r \in added : r.age = "next" /\ tick = "ended" /\ r.fn \in Range(invoked)

\* C6 as stated: when a callback, during tick N, invokes the handle of a
\* callback h that is still ahead in the tick's copy, tick N runs its whole
\* copy (h included) and tick N+1 does not invoke h unless it was registered
\* again.
C6_UnregisteredDuringTick ==
    \A r \in cut :
        /\ (r.age = "this" /\ tick = "ended") => invoked = regAtBegin
        /\ (r.age = "next" /\ tick \in {"running", "ended"})
               => r.fn \notin Range(invoked)

\* C6 amended: ... and tick N+1 does not invoke h, unless it was registered
\* again or the registry held it more than once when the handle was invoked.
C6_LastEntryUnregisteredDuringTick ==
    \A r \in cut :
        /\ (r.age = "this" /\ tick = "ended") => invoked = regAtBegin
        /\ (r.age = "next" /\ r.last /\ tick \in {"running", "ended"})
               => r.fn \notin Range(invoked)

\* Tick N+1 has ended, having invoked some callback but not the one whose
\* only registration a handle removed during tick N.
C6_Witness ==
    \E r \in cut : r.age = "next" /\ r.last /\ tick = "ended" /\ invoked # <<>>

\* C7 as stated: registerCallback(f) followed at once by the handle it
\* returned: no tick that begins afterwards invokes f (until f is registered
\* again), whatever the registry held before.
C7_RevokedNeverInvoked ==
    \A r \in gone : (r.ticked /\ pc = "callback") => callback # r.fn

\* C7 amended: the same, for a registry that did not already hold f.
C7_FreshRevokedNeverInvoked ==
    \A r \in gone : (r.fresh /\ r.ticked /\ pc = "callback") => callback # r.fn

\* A later tick is invoking a callback while f, registered on a registry that
\* did not hold it and revoked at once, has not been registered again.
C7_Witness ==
    \E r \in gone : r.fresh /\ r.ticked /\ pc = "callback"

\* C8: invoking the same handle a second time is a no-op: the registry after
\* two invocations equals the registry after one.
C8_HandleIdempotent ==
    [][(lastOp[1] = "unregister" /\ lastOp' = lastOp) => callbacks' = callbacks]_vars

\* C9: for every clock reading with seconds s and milliseconds m,
\* millisecondsUntilNextMinute returns (60 - s) * 1000 - m, a value in
\* 1..60000, which is 60000 at s = 0, m = 0 and 29500 at s = 30, m = 500.
C9_DelayToNextMinute ==
    pc = "returned" =>
        /\ millisecondsRemaining = (60 - reading.s) * 1000 - reading.m
        /\ millisecondsRemaining \in 1..60000
        /\ millisecondsRemaining # 0
        /\ (reading.s = 0 /\ reading.m = 0) => millisecondsRemaining = 60000
        /\ (reading.s = 30 /\ reading.m = 500) => millisecondsRemaining = 29500

\* A computation at second 30, millisecond 500 of a later minute has returned.
C9_Witness ==
    pc = "returned" /\ reading.s = 30 /\ reading.m = 500 /\ reading.minute > 0

\* C10: right after destroy() returns the registry is empty, this.timerId is
\* null and no timer is live; no callback destroy() cleared is invoked by a
\* tick that begins afterwards (until it is registered again).
C10_DestroyLeavesNothing ==
    /\ lastOp[1] = "destroy" =>
           /\ callbacks = <<>>
           /\ timerId = Null
           /\ LiveTimers = {}
    /\ \A r \in cleared : (r.ticked /\ pc = "callback") => callback # r.fn

C12_TickRunsItsSnapshot ==
    /\ tick = "running" =>
           /\ Len(invoked) = idx
           /\ \A j \in 1..Len(invoked) :
                  j <= Len(regAtBegin) /\ invoked[j] = regAtBegin[j]
    /\ tick = "ended" => invoked = regAtBegin

\* A tick of two entries has ended in which a callback threw and the registry
\* was changed.
C12_Witness ==
    /\ tick = "ended"
    /\ Len(regAtBegin) = MaxCallbacks
    /\ thrown # {}
    /\ callbacks # regAtBegin
    /\ callbacks # <<>>

\* C13: start() called from outside a dispatch while this.timerId names a
\* trigger (the one-shot timeout or the interval) leaves exactly one live
\* timer: a one-shot timeout due at the next minute boundary, which
\* this.timerId names; the trigger there was before is cancelled.
C13_RestartReplacesTrigger ==
    [][(starts' = starts + 1 /\ pc = "idle" /\ timerId # Null) =>
           /\ Cardinality(DOMAIN timers') = 1
           /\ timerId' \in DOMAIN timers'
           /\ timers'[timerId'] =
                  [kind |-> "timeout", due |-> now + MillisecondsUntilNextMinute(now)]]_vars

\* C14: whatever the operations (start() called by a callback during a tick
\* included), no two ticks begin at the same clock reading: a minute boundary
\* has at most one tick.
C14_OneTickPerBoundary ==
    \A i, j \in 1..Len(tickTimes) : i # j => tickTimes[i] # tickTimes[j]

\* C15: a throw leaves this.timerId, the timers and the registry as they
\* were; after a tick in which a callback threw, and during which nobody
\* called start, stop or destroy, an interval is live, so tick N+1 is due; and
\* tick N+1 invokes the callback that threw in tick N if the registry holds it
\* when tick N+1 begins.
C15_ThrowChangesNothing ==
    \A r \in threw :
        /\ r.same
        /\ (r.age = "this" /\ quiet /\ pc = "idle") =>
               \E id \in LiveTimers : timers[id].kind = "interval"
        /\ (r.age = "next" /\ tick = "ended" /\ r.fn \in Range(regAtBegin))
               => r.fn \in Range(invoked)

\* Tick N+1 has ended and has invoked again the callback that threw in tick N.
C15_Witness ==
    \E r \in threw : r.age = "next" /\ tick = "ended" /\ r.fn \in Range(invoked)

\* C16: the scheduler is Running when this.timerId names a trigger and Stopped
\* when it is null; a step that is not start(), stop() or destroy()
\* (registerCallback, a handle, the clock, a timer firing, the dispatch loop
\* and its end, where the handler re-arms) does not take the scheduler from
\* one to the other.
C16_OnlyControlChangesState ==
    [][lastOp'[1] \notin {"start", "stop", "destroy"}
           => ((timerId' = Null) <=> (timerId = Null))]_vars

Horizon == LiveTimers # {} /\ \A id \in LiveTimers : timers[id].due > MaxTime

C19_CancelDoesNotCutTick ==
    \A r \in quit :
        /\ tick = "running" => pc \in {"loop", "callback"}
        /\ tick = "ended" =>
               \A j \in (r.pos + 1)..Len(regAtBegin) :
                   j <= Len(invoked) /\ invoked[j] = regAtBegin[j]

\* A tick has ended in which a callback called destroy() and another callback
\* followed it; the registry is empty.
C19_Witness ==
    /\ tick = "ended"
    /\ callbacks = <<>>
    /\ \E r \in quit : r.op = "destroy" /\ r.pos < Len(regAtBegin)
    /\ invoked = regAtBegin

\* C20: a call of the handle of f removes at most one entry of the registry,
\* an entry that is f (the first one), and leaves the other entries present
\* and in their order; registerCallback(f) appends f as the last entry; neither
\* changes anything but the registry.
C20_OneEntryAtATime ==
    /\ lastOp[1] = "unregister" =>
           /\ frame.same
           /\ \/ callbacks = frame.reg /\ lastOp[2] \notin Range(frame.reg)
              \/ \E i \in 1..Len(frame.reg) :
                     /\ frame.reg[i] = lastOp[2]
                     /\ Len(callbacks) = Len(frame.reg) - 1
                     /\ \A j \in 1..(i - 1) : callbacks[j] = frame.reg[j]
                     /\ \A j \in i..Len(callbacks) : callbacks[j] = frame.reg[j + 1]
    /\ lastOp[1] = "register" =>
           /\ frame.same
           /\ Len(callbacks) = Len(frame.reg) + 1
           /\ callbacks[Len(callbacks)] = lastOp[2]
           /\ \A j \in 1..Len(frame.reg) : callbacks[j] = frame.reg[j]

\* The handle of g has taken g out from between two other entries.
C20_Witness ==
    /\ lastOp = <<"unregister", "g">>
    /\ frame.reg = <<"h", "g", "f">>
    /\ callbacks = <<"h", "f">>

====
